---- MODULE Spec2Model ----
(***************************************************************************)
(* Conditional aggregates: the Q tree normalisation (transform_q), the     *)
(* WHEN-clause renderer (render_q) and the CASE aggregate (as_sql) of      *)
(* aggregates/conditional.py.                                              *)
(*                                                                         *)
(* SQL text is a sequence of string tokens; a bind placeholder is the      *)
(* token "%s".  Q objects live in a heap keyed by address, so that the     *)
(* in-place mutation of transform_q and the aliasing between a template    *)
(* and its clones are visible.  An address is <<root id>> \o path.         *)
(***************************************************************************)
EXTENDS Integers, Sequences, FiniteSets, TLC

VARIABLES heap, django_minor, conditional, aggregates, out, last, calls

vars == <<heap, django_minor, conditional, aggregates, out, last, calls>>

----------------------------------------------------------------------------
(* Bounds *)

\* Largest number of children (leaves and sub-trees, at all depths) of a
\* template tree rendered directly.
MaxSize == 3

\* The same for the when template of an aggregate.
MaxWhenSize == 2

----------------------------------------------------------------------------
(* Values *)

Connectors == {"AND", "OR"}

DjangoMinors == {6, 7}

\* The quote character of the connection, by name: the double quote of
\* sqlite and postgres.
QuoteChars == {"dq"}

\* Fields of the Stat model and the lookups the host knows.
ModelFields == {"stat_type", "event_type", "detail", "count"}
QueryTerms == {"exact", "in"}
TableAlias == "testapp_stat"

NoRef == <<>>

\* A (lookup, value) child of a Q: the lookup path split at LOOKUP_SEP.
RawLeaf(lookup, value) ==
    [type |-> "raw", ref |-> NoRef, lookup |-> lookup, op |-> "", value |-> value]

RawLeaves ==
    { RawLeaf(<<"stat_type">>, <<"a">>),
      RawLeaf(<<"event_type", "in">>, <<"v", "b">>),
      RawLeaf(<<"nosuch">>, <<"x">>) }

QRef(a) == [type |-> "Q", ref |-> a, lookup |-> <<>>, op |-> "", value |-> <<>>]

EmptyHeap == [a \in {} |-> 0]

TemplateAddr == <<0>>

NoOut == [err |-> "", sql |-> <<>>, params |-> <<>>, qc |-> "", alias |-> ""]

\* No call is in progress on another thread.
NoCalls == [c \in {} |-> 0]

----------------------------------------------------------------------------
(* Q trees the caller can build: every shape with n children in all below *)
(* the root, and for each shape every connector, negation flag and leaf.   *)

\* A leaf position of a shape, before a leaf is chosen for it.
Slot == [type |-> "slot", ref |-> NoRef, lookup |-> <<>>, op |-> "", value |-> <<>>]

RECURSIVE Shapes(_, _), ChildSeqs(_, _, _)

\* One child of cost k at address b: a leaf position, or a Q with k - 1
\* children in all.
ChildOf(b, k) ==
    (IF k = 1 THEN {[child |-> Slot, heap |-> EmptyHeap]} ELSE {})
    \cup {[child |-> QRef(b), heap |-> h] : h \in Shapes(b, k - 1)}

ChildSeqs(a, i, n) ==
    IF n = 0
    THEN {[children |-> <<>>, heap |-> EmptyHeap]}
    ELSE UNION { { [children |-> <<c.child>> \o r.children, heap |-> c.heap @@ r.heap] :
                     c \in ChildOf(a \o <<i>>, k), r \in ChildSeqs(a, i + 1, n - k) } :
                 k \in 1..n }

Shapes(a, n) ==
    { (a :> [connector |-> "AND", negated |-> FALSE, children |-> cs.children]) @@ cs.heap :
        cs \in ChildSeqs(a, 1, n) }

TemplateShapes(max) == UNION { Shapes(TemplateAddr, n) : n \in 0..max }

LeafSlots(shape) ==
    UNION { { <<b, i>> : i \in {j \in DOMAIN shape[b].children :
                                   shape[b].children[j].type = "slot"} } :
            b \in DOMAIN shape }

\* The tree of a shape with connector and negation flags f and leaves l.
Fill(shape, f, l) ==
    [b \in DOMAIN shape |->
        [connector |-> f[b][1], negated |-> f[b][2],
         children |-> [i \in DOMAIN shape[b].children |->
                          IF shape[b].children[i].type = "Q"
                          THEN shape[b].children[i]
                          ELSE l[<<b, i>>]]]]

\* heap is a tree a caller can build with at most max children in all.
IsTemplate(max) ==
    \E shape \in TemplateShapes(max) :
        \E f \in [DOMAIN shape -> Connectors \X BOOLEAN] :
            \E l \in [LeafSlots(shape) -> RawLeaves] :
                heap = Fill(shape, f, l)

----------------------------------------------------------------------------
(* Host: Query.build_filter and WhereNode.as_sql *)

Last(s) == s[Len(s)]
Front(s) == SubSeq(s, 1, Len(s) - 1)

\* The lookup type is the trailing part when it is a query term and not a
\* field; the default is exact.
LookupType(parts) ==
    IF Len(parts) > 1 /\ Last(parts) \in QueryTerms /\ Last(parts) \notin ModelFields
    THEN Last(parts) ELSE "exact"

FieldParts(parts) ==
    IF Len(parts) > 1 /\ Last(parts) \in QueryTerms /\ Last(parts) \notin ModelFields
    THEN Front(parts) ELSE parts

\* build_filter(child): the WhereNode for a (lookup, value) pair; in
\* Django 1.7 the pair (WhereNode, joins_used).  Anything else than a
\* (lookup, value) pair cannot be unpacked or split.
build_filter(child, minor) ==
    IF child.type = "where" THEN [err |-> "TypeError", node |-> child]
    ELSE IF child.type = "pair" THEN [err |-> "AttributeError", node |-> child]
    ELSE IF FieldParts(child.lookup)[1] \notin ModelFields
         \/ Len(FieldParts(child.lookup)) > 1
    THEN [err |-> "FieldError", node |-> child]
    ELSE [err |-> "",
          node |-> [type |-> IF minor = 7 THEN "pair" ELSE "where",
                    ref |-> NoRef,
                    lookup |-> FieldParts(child.lookup),
                    op |-> LookupType(child.lookup),
                    value |-> child.value]]

\* qn(name): quote_name of the backend.
qn(name, qc) == <<qc, name, qc>>

RECURSIVE Placeholders(_)
Placeholders(n) == IF n = 0 THEN <<>>
                   ELSE IF n = 1 THEN <<"%s">>
                   ELSE <<"%s", ", ">> \o Placeholders(n - 1)

\* WhereNode.as_sql(qn, connection) of a one-constraint node.
WhereAsSql(w, qc) ==
    LET colsql == qn(TableAlias, qc) \o <<".">> \o qn(w.lookup[1], qc)
    IN  IF w.op = "in"
        THEN [sql |-> colsql \o <<" IN (">> \o Placeholders(Len(w.value)) \o <<")">>,
              params |-> w.value]
        ELSE [sql |-> colsql \o <<" = ", "%s">>, params |-> w.value]

----------------------------------------------------------------------------
(* transform_q *)

RECURSIVE transform_children_shallow(_, _, _, _)

\* A mutation of the loop: a Q child is skipped instead of descended into.
transform_children_shallow(h, a, i, minor) ==
    IF i > Len(h[a].children)
    THEN [err |-> "", heap |-> h]
    ELSE LET child == h[a].children[i]
         IN  IF child.type = "Q"
             THEN transform_children_shallow(h, a, i + 1, minor)
             ELSE LET w == build_filter(child, minor)
                  IN  IF w.err # "" THEN [err |-> w.err, heap |-> h]
                      ELSE transform_children_shallow(
                               [h EXCEPT ![a].children[i] = w.node], a, i + 1, minor)

RECURSIVE transform_children(_, _, _, _)

\* The loop of transform_q from child i on.  A failing build_filter leaves
\* the children before i replaced.
transform_children(h, a, i, minor) ==
    IF i > Len(h[a].children)
    THEN [err |-> "", heap |-> h]
    ELSE LET child == h[a].children[i]
         IN  IF child.type = "Q"
             THEN LET r == transform_children(h, child.ref, 1, minor)
                  IN  IF r.err # "" THEN r
                      ELSE transform_children(r.heap, a, i + 1, minor)
             ELSE LET w == build_filter(child, minor)
                  IN  IF w.err # "" THEN [err |-> w.err, heap |-> h]
                      ELSE transform_children(
                               [h EXCEPT ![a].children[i] = w.node], a, i + 1, minor)

transform_q(h, a, minor) == transform_children(h, a, 1, minor)

----------------------------------------------------------------------------
(* render_q *)

RECURSIVE Join_trailing(_, _)
\* A mutation of Join: the separator follows every condition.
Join_trailing(joinstr, conditions) ==
    IF Len(conditions) = 0 THEN <<>>
    ELSE conditions[1] \o joinstr \o Join_trailing(joinstr, Tail(conditions))

RECURSIVE Join(_, _)
\* joinstr.join(conditions)
Join(joinstr, conditions) ==
    IF Len(conditions) = 0 THEN <<>>
    ELSE IF Len(conditions) = 1 THEN conditions[1]
    ELSE conditions[1] \o joinstr \o Join(joinstr, Tail(conditions))

\* u' {} '.format(q.connector)
JoinStr(connector) == <<" ", connector, " ">>

\* u'({})'.format(s)
Paren(s) == <<"(">> \o s \o <<")">>

\* A mutation of Negate: the prefix goes inside the parentheses.
Negate_inside(negated, rendered) ==
    IF negated THEN <<"(", "NOT ">> \o Tail(rendered) ELSE rendered

\* u'NOT {}'.format(rendered) if q.negated
Negate(negated, rendered) == IF negated THEN <<"NOT ">> \o rendered ELSE rendered

\* A mutation of extend: the params of the child go in front.
extend_front(params, child_params) == child_params \o params

\* params.extend(child_params)
extend(params, child_params) == params \o child_params

RECURSIVE render_children(_, _, _, _, _, _)

\* A mutation of render_leaf: a child that has no as_sql is skipped.
render_leaf_lenient(child, qc) ==
    IF child.type = "raw"
    THEN [err |-> "", sql |-> <<>>, params |-> <<>>]
    ELSE [err |-> ""] @@ WhereAsSql(child, qc)

\* One leaf of the loop: unpack a pair, then child.as_sql.  A (lookup,
\* value) pair unpacks too, to a str that has no as_sql.
render_leaf(child, qc) ==
    IF child.type = "raw"
    THEN [err |-> "AttributeError", sql |-> <<>>, params |-> <<>>]
    ELSE [err |-> ""] @@ WhereAsSql(child, qc)

\* The loop over q.children from child i on, then the join.
render_children(h, a, i, conditions, params, qc) ==
    IF i > Len(h[a].children)
    THEN [err |-> "",
          sql |-> Negate(h[a].negated,
                         Paren(Join(JoinStr(h[a].connector), conditions))),
          params |-> params, heap |-> h]
    ELSE LET child == h[a].children[i]
         IN  IF child.type = "Q"
             THEN LET r == render_children(h, child.ref, 1, <<>>, <<>>, qc)
                  IN  IF r.err # "" THEN r
                      ELSE render_children(r.heap, a, i + 1,
                                           Append(conditions, Paren(r.sql)),
                                           extend(params, r.params), qc)
             ELSE LET r == render_leaf(child, qc)
                  IN  IF r.err # ""
                      THEN [err |-> r.err, sql |-> <<>>, params |-> <<>>, heap |-> h]
                      ELSE render_children(h, a, i + 1,
                                           Append(conditions, r.sql),
                                           extend(params, r.params), qc)

\* A mutation of render_q: the loop consumes q.children as it goes.
render_q_consuming(h, a, qc) ==
    LET r == render_children(h, a, 1, <<>>, <<>>, qc)
    IN  [r EXCEPT !.heap = [h EXCEPT ![a].children = <<>>]]

render_q(h, a, qc) == render_children(h, a, 1, <<>>, <<>>, qc)

----------------------------------------------------------------------------
(* SQLConditionalAggregate *)

NoExtra == [k \in {} |-> <<>>]

\* The **extra options a caller can give an aggregate: none, one the
\* template does not use, and ones named like the keys of the template.
Extras ==
    { NoExtra,
      [distinct |-> <<"DISTINCT ">>],
      [function |-> <<"MAX">>, when_clause |-> <<"1 = 1">>],
      [value |-> <<"2">>, default |-> <<"5">>] }

AggregateNames == {"ConditionalSum", "ConditionalCount"}

\* The col the host resolves the lookup of an aggregate to: a plain string,
\* a tuple of identifiers, or an object that has as_sql.
Cols ==
    { [form |-> "str", parts |-> <<"count">>, params |-> <<>>],
      [form |-> "tuple", parts |-> <<"testapp_stat", "count">>, params |-> <<>>],
      [form |-> "expr", parts |-> <<"COALESCE(", "count", ", ", "%s", ")">>,
       params |-> <<"7">>] }

Aliases == {"impressions"}

NoAggregates == [a \in {} |-> 0]

NoConditional == [name |-> "", col |-> CHOOSE c \in Cols : c.form = "str",
                  when |-> TemplateAddr, extra |-> NoExtra]

Lit(s) == [lit |-> s, key |-> ""]
Key(k) == [lit |-> "", key |-> k]

\* '%(function)s(CASE WHEN %(when_clause)s THEN %(value)s ELSE %(default)s END)'
sql_template ==
    << Key("function"), Lit("("), Lit("CASE WHEN "), Key("when_clause"),
       Lit(" THEN "), Key("value"), Lit(" ELSE "), Key("default"),
       Lit(" END"), Lit(")") >>

RECURSIVE PercentFormat(_, _)
\* template % substitutions
PercentFormat(template, substitutions) ==
    IF template = <<>> THEN <<>>
    ELSE (IF Head(template).key = "" THEN <<Head(template).lit>>
          ELSE substitutions[Head(template).key])
         \o PercentFormat(Tail(template), substitutions)

\* Class attributes of the two SQLClass classes.
sql_function(name) == IF name = "ConditionalSum" THEN <<"SUM">> ELSE <<"COUNT">>
default(name) == IF name = "ConditionalSum" THEN <<"0">> ELSE <<"NULL">>

\* get_value(**kwargs): the field name, or '1' for a count.
get_value(name, field_name) == IF name = "ConditionalSum" THEN field_name ELSE <<"1">>

RECURSIVE JoinDot(_, _)
\* '.'.join([qn(c) for c in self.col])
JoinDot(col, qc) ==
    IF Len(col) = 0 THEN <<>>
    ELSE IF Len(col) = 1 THEN qn(col[1], qc)
    ELSE qn(col[1], qc) \o <<".">> \o JoinDot(Tail(col), qc)

\* A mutation of col_as_sql: the params of self.col.as_sql are dropped.
col_as_sql_noparams(col, qc) ==
    IF col.form = "expr" THEN [field_name |-> col.parts, params |-> <<>>]
    ELSE IF col.form = "tuple" THEN [field_name |-> JoinDot(col.parts, qc), params |-> <<>>]
    ELSE [field_name |-> col.parts, params |-> <<>>]

\* The first branch of as_sql: (field_name, params) of self.col.
col_as_sql(col, qc) ==
    IF col.form = "expr" THEN [field_name |-> col.parts, params |-> col.params]
    ELSE IF col.form = "tuple" THEN [field_name |-> JoinDot(col.parts, qc), params |-> <<>>]
    ELSE [field_name |-> col.parts, params |-> <<>>]

\* substitutions.update(self.extra)
Update(substitutions, extra) == extra @@ substitutions

\* SQLConditionalAggregate.as_sql(qn, connection)
as_sql(aggregate, h, qc) ==
    LET c == col_as_sql(aggregate.col, qc)
        w == render_q(h, aggregate.when, qc)
        params == extend(c.params, w.params)
        substitutions ==
            [function |-> sql_function(aggregate.name),
             when_clause |-> w.sql,
             value |-> get_value(aggregate.name, c.field_name),
             default |-> default(aggregate.name)]
    IN  IF w.err # ""
        THEN [err |-> w.err, sql |-> <<>>, params |-> <<>>, heap |-> w.heap]
        ELSE [err |-> "",
              sql |-> PercentFormat(sql_template, Update(substitutions, aggregate.extra)),
              params |-> params,
              heap |-> w.heap]

----------------------------------------------------------------------------
(* ConditionalAggregate *)

IsPrefix(a, b) == Len(a) <= Len(b) /\ SubSeq(b, 1, Len(a)) = a

\* The address, under the root n, of the copy of the node b of the tree at a.
Rebase(a, b, n) == <<n>> \o SubSeq(b, Len(a) + 1, Len(b))

\* A mutation of q.clone(): only the node at a is copied, the Q objects
\* below it are shared with the original.
clone_shallow(h, a, n) == (<<n>> :> h[a])

\* q.clone(): new Q objects for the node at a and every Q below it; the
\* leaves are carried over.
clone(h, a, n) ==
    LET sub == {b \in DOMAIN h : IsPrefix(a, b)}
        copy(b) == [h[b] EXCEPT !.children =
                       [i \in DOMAIN @ |->
                           IF @[i].type = "Q" THEN QRef(Rebase(a, @[i].ref, n))
                           ELSE @[i]]]
    IN  [b2 \in {Rebase(a, b, n) : b \in sub} |->
            copy(CHOOSE b \in sub : Rebase(a, b, n) = b2)]

\* The objects still referenced: the caller's template and the when tree
\* of every registered aggregate.
Live(h, aggs) ==
    LET roots == {TemplateAddr[1]} \cup {aggs[x].when[1] : x \in DOMAIN aggs}
    IN  [b \in {x \in DOMAIN h : x[1] \in roots} |-> h[b]]

\* The aggregates that stay registered when alias is assigned.
Others(aggs, alias) == [x \in DOMAIN aggs \ {alias} |-> aggs[x]]

\* The root id of a newly allocated tree: the lowest one that no object
\* referenced after the call has (the aggregate that was under the alias
\* is released by the assignment).
Fresh(aggs) ==
    CHOOSE n \in 1..Cardinality(Aliases) :
        /\ \A x \in DOMAIN aggs : aggs[x].when[1] # n
        /\ \A m \in 1..(n - 1) : \E x \in DOMAIN aggs : aggs[x].when[1] = m

\* A mutation of add_to_query: self.when is normalized without a clone.
add_to_query_noclone(h, aggs, self, alias, col, minor) ==
    LET when == self.when
        t == transform_q(h, when, minor)
        aggregate == [name |-> self.name, col |-> col, when |-> when, extra |-> self.extra]
    IN  IF t.err # ""
        THEN [err |-> t.err, aggregates |-> aggs, heap |-> Live(t.heap, aggs)]
        ELSE LET aggs2 == (alias :> aggregate) @@ aggs
             IN  [err |-> "", aggregates |-> aggs2, heap |-> Live(t.heap, aggs2)]

\* A mutation of add_to_query: the aggregate is put in query.aggregates
\* before its when tree is normalized.
add_to_query_eager(h, aggs, self, alias, col, minor) ==
    LET n == Fresh(Others(aggs, alias))
        when == <<n>>
        t == transform_q(clone(h, self.when, n) @@ Live(h, Others(aggs, alias)),
                         when, minor)
        aggregate == [name |-> self.name, col |-> col, when |-> when, extra |-> self.extra]
        aggs2 == (alias :> aggregate) @@ aggs
    IN  [err |-> t.err, aggregates |-> aggs2, heap |-> Live(t.heap, aggs2)]

\* ConditionalAggregate.add_to_query(query, alias, col, source, is_summary)
add_to_query(h, aggs, self, alias, col, minor) ==
    LET n == Fresh(Others(aggs, alias))
        when == <<n>>
        t == transform_q(clone(h, self.when, n) @@ Live(h, Others(aggs, alias)),
                         when, minor)
        aggregate == [name |-> self.name, col |-> col, when |-> when, extra |-> self.extra]
    IN  IF t.err # ""
        THEN [err |-> t.err, aggregates |-> aggs, heap |-> h]
        ELSE LET aggs2 == (alias :> aggregate) @@ aggs
             IN  [err |-> "", aggregates |-> aggs2, heap |-> Live(t.heap, aggs2)]

----------------------------------------------------------------------------
(* Direct use of the two functions on a caller's tree *)

Init ==
    /\ IsTemplate(MaxSize)
    /\ django_minor \in DjangoMinors
    /\ conditional = NoConditional
    /\ aggregates = NoAggregates
    /\ out = NoOut
    /\ last = "init"
    /\ calls = NoCalls

\* transform_q(q, query) on the caller's tree.
TransformQ ==
    /\ LET r == transform_q(heap, TemplateAddr, django_minor)
       IN  /\ heap' = r.heap
           /\ out' = [NoOut EXCEPT !.err = r.err]
    /\ last' = "transform_q"
    /\ UNCHANGED <<django_minor, conditional, aggregates, calls>>

\* render_q(q, qn, connection) on the caller's tree.
RenderQ ==
    \E qc \in QuoteChars :
        /\ LET r == render_q(heap, TemplateAddr, qc)
           IN  /\ heap' = r.heap
               /\ out' = [NoOut EXCEPT !.err = r.err, !.sql = r.sql,
                                        !.params = r.params, !.qc = qc]
        /\ last' = "render_q"
        /\ UNCHANGED <<django_minor, conditional, aggregates, calls>>

Next == TransformQ \/ RenderQ

Spec == Init /\ [][Next]_vars

----------------------------------------------------------------------------
(* Aggregates of one query, built from a template the caller keeps *)

InitAgg ==
    /\ IsTemplate(MaxWhenSize)
    /\ django_minor \in DjangoMinors
    /\ conditional \in [name : AggregateNames, col : Cols, when : {TemplateAddr},
                        extra : Extras]
    /\ aggregates = NoAggregates
    /\ out = NoOut
    /\ last = "init"
    /\ calls = NoCalls

\* query.add_aggregate calls aggregate.add_to_query(query, alias, col, ...).
AddToQuery ==
    \E alias \in Aliases :
        /\ LET r == add_to_query(heap, aggregates, conditional, alias,
                               conditional.col, django_minor)
           IN  /\ heap' = r.heap
               /\ aggregates' = r.aggregates
               /\ out' = [NoOut EXCEPT !.err = r.err, !.alias = alias]
        /\ last' = "add_to_query"
        /\ UNCHANGED <<django_minor, conditional, calls>>

\* The compiler calls aggregate.as_sql(qn, connection) for an alias.
AsSql ==
    \E alias \in DOMAIN aggregates, qc \in QuoteChars :
        /\ LET r == as_sql(aggregates[alias], heap, qc)
           IN  /\ heap' = r.heap
               /\ out' = [err |-> r.err, sql |-> r.sql, params |-> r.params,
                         qc |-> qc, alias |-> alias]
        /\ last' = "as_sql"
        /\ UNCHANGED <<django_minor, conditional, aggregates, calls>>

NextAgg == AddToQuery \/ AsSql

SpecAgg == InitAgg /\ [][NextAgg]_vars

----------------------------------------------------------------------------
(* Two threads, each compiling an aggregate on a query of its own, from   *)
(* aggregates that share one when tree.  A step is the clone, one pass of *)
(* the loop of transform_q on a leaf, the registration, or as_sql.        *)

CallIds == {1, 2}

\* The aggregate thread c compiles: a ConditionalSum for the first thread,
\* a ConditionalCount for the second, built without extra options on the
\* column count, with the shared tree as when.
SharedConditional(c) ==
    [name |-> IF c = 1 THEN "ConditionalSum" ELSE "ConditionalCount",
     col |-> CHOOSE col \in Cols : col.form = "str",
     when |-> TemplateAddr,
     extra |-> NoExtra]

RECURSIVE Visits(_, _, _)

\* The (Q object, index) positions the loop of transform_q assigns to on
\* the tree at a, from child i on, in the order it reaches them.
Visits(h, a, i) ==
    IF i > Len(h[a].children) THEN <<>>
    ELSE LET child == h[a].children[i]
         IN  (IF child.type = "Q" THEN Visits(h, child.ref, 1) ELSE << <<a, i>> >>)
             \o Visits(h, a, i + 1)

\* The heap without the tree of root id n.
Release(h, n) == [b \in {x \in DOMAIN h : x[1] # n} |-> h[b]]

InitConc ==
    /\ IsTemplate(MaxWhenSize)
    /\ django_minor \in DjangoMinors
    /\ conditional = NoConditional
    /\ aggregates = NoAggregates
    /\ out = NoOut
    /\ last = "init"
    /\ calls = [c \in CallIds |->
                  [pc |-> "clone", self |-> SharedConditional(c), when |-> NoRef,
                   k |-> 0, aggregates |-> NoAggregates, out |-> NoOut]]

\* when = self.when.clone()
Clone(c) ==
    /\ calls[c].pc = "clone"
    /\ heap' = clone(heap, calls[c].self.when, c) @@ heap
    /\ calls' = [calls EXCEPT ![c].pc = "transform_q", ![c].when = <<c>>]
    /\ last' = "clone"
    /\ UNCHANGED <<django_minor, conditional, aggregates, out>>

\* One pass of the loop of transform_q(when, query) that reaches a child
\* that is no Q: build_filter, then the assignment to q.children[i].  An
\* exception ends the call and the clone is dropped.
TransformLeaf(c) ==
    /\ calls[c].pc = "transform_q"
    /\ LET v == Visits(heap, calls[c].when, 1)
       IN  /\ calls[c].k < Len(v)
           /\ LET b == v[calls[c].k + 1][1]
                  i == v[calls[c].k + 1][2]
                  w == build_filter(heap[b].children[i], django_minor)
              IN  IF w.err # ""
                  THEN /\ heap' = Release(heap, c)
                       /\ calls' = [calls EXCEPT ![c].pc = "raised",
                                                 ![c].out = [NoOut EXCEPT !.err = w.err]]
                  ELSE /\ heap' = [heap EXCEPT ![b].children[i] = w.node]
                       /\ calls' = [calls EXCEPT ![c].k = @ + 1]
    /\ last' = "transform_q"
    /\ UNCHANGED <<django_minor, conditional, aggregates, out>>

\* The loop is over: aggregate = self.SQLClass(...) and
\* query.aggregates[alias] = aggregate.
Register(c) ==
    /\ calls[c].pc = "transform_q"
    /\ calls[c].k = Len(Visits(heap, calls[c].when, 1))
    /\ \E alias \in Aliases :
          calls' = [calls EXCEPT
                      ![c].pc = "as_sql",
                      ![c].out = [NoOut EXCEPT !.alias = alias],
                      ![c].aggregates =
                          (alias :> [name |-> calls[c].self.name,
                                     col |-> calls[c].self.col,
                                     when |-> calls[c].when,
                                     extra |-> calls[c].self.extra]) @@ @]
    /\ last' = "add_to_query"
    /\ UNCHANGED <<heap, django_minor, conditional, aggregates, out>>

\* The compiler of the thread's query calls as_sql on its aggregate.
Compile(c) ==
    /\ calls[c].pc = "as_sql"
    /\ \E qc \in QuoteChars :
          LET r == as_sql(calls[c].aggregates[calls[c].out.alias], heap, qc)
          IN  /\ heap' = r.heap
              /\ calls' = [calls EXCEPT
                             ![c].pc = "done",
                             ![c].out = [err |-> r.err, sql |-> r.sql, params |-> r.params,
                                         qc |-> qc, alias |-> calls[c].out.alias]]
    /\ last' = "as_sql"
    /\ UNCHANGED <<django_minor, conditional, aggregates, out>>

NextConc == \E c \in CallIds : Clone(c) \/ TransformLeaf(c) \/ Register(c) \/ Compile(c)

SpecConc == InitConc /\ [][NextConc]_vars

----------------------------------------------------------------------------
(* Properties of render_q, checked under Spec *)

\* The Q objects of the tree at a.
Nodes(h, a) == {b \in DOMAIN h : IsPrefix(a, b)}

HasRaw(h, a) ==
    \E b \in Nodes(h, a) : \E i \in DOMAIN h[b].children : h[b].children[i].type = "raw"

HasEmpty(h, a) == \E b \in Nodes(h, a) : h[b].children = <<>>

IsLeaf(child) == child.type \in {"where", "pair"}

Rendered == last = "render_q" /\ out.err = ""

RECURSIVE LeafParams(_, _, _, _)
\* The params of the leaf predicates below a, from child i on, left to right.
LeafParams(h, a, i, qc) ==
    IF i > Len(h[a].children) THEN <<>>
    ELSE LET child == h[a].children[i]
         IN  (IF child.type = "Q" THEN LeafParams(h, child.ref, 1, qc)
              ELSE IF IsLeaf(child) THEN WhereAsSql(child, qc).params
              ELSE <<>>)
             \o LeafParams(h, a, i + 1, qc)

\* The leaf predicates of the tree at a, in any order.
LeavesOf(h, a) ==
    { l \in Nodes(h, a) \X (1..(MaxSize + 1)) :
        l[2] \in DOMAIN h[l[1]].children /\ IsLeaf(h[l[1]].children[l[2]]) }

RECURSIVE CountParams(_, _, _)
CountParams(h, ls, qc) ==
    IF ls = {} THEN 0
    ELSE LET l == CHOOSE x \in ls : TRUE
         IN  Len(WhereAsSql(h[l[1]].children[l[2]], qc).params)
             + CountParams(h, ls \ {l}, qc)

\* C1: for a normalized tree, the params render_q returns are the leaf
\* predicates' own params concatenated in left-to-right leaf order, and
\* their number is the sum of the leaves' param counts.
C1_ParamsInLeafOrder ==
    (last = "render_q" /\ ~HasRaw(heap, TemplateAddr)) =>
        /\ out.err = ""
        /\ out.params = LeafParams(heap, TemplateAddr, 1, out.qc)
        /\ Len(out.params) = CountParams(heap, LeavesOf(heap, TemplateAddr), out.qc)

\* A nested leaf with two params is rendered before a sibling leaf of its
\* parent.
C1_Witness ==
    /\ Rendered
    /\ Len(heap[TemplateAddr].children) = 2
    /\ heap[TemplateAddr].children[1].type = "Q"
    /\ IsLeaf(heap[TemplateAddr].children[2])
    /\ out.params = <<"v", "b", "a">>

HasEmptyParens(sql) ==
    \E i \in 1..(Len(sql) - 1) : sql[i] = "(" /\ sql[i + 1] = ")"

\* C6: render_q on a tree that has a node without children, at the root or
\* nested, fails with an error and never returns SQL containing "()".
C6_EmptyChildrenFail ==
    (last = "render_q" /\ HasEmpty(heap, TemplateAddr)) =>
        /\ out.err # ""
        /\ ~HasEmptyParens(out.sql)

\* C7: render_q on a tree that still holds a raw (lookup, value) leaf at
\* any depth fails with an error and returns no sql and no params.
C7_RawLeafFails ==
    (last = "render_q" /\ HasRaw(heap, TemplateAddr)) =>
        /\ out.err # ""
        /\ out.sql = <<>>
        /\ out.params = <<>>

\* The raw leaf follows a sibling that was already normalized and rendered.
C7_Witness ==
    /\ last = "render_q"
    /\ out.err # ""
    /\ Len(heap[TemplateAddr].children) >= 2
    /\ IsLeaf(heap[TemplateAddr].children[1])
    /\ heap[TemplateAddr].children[2].type = "raw"

CountToken(sql, t) == Cardinality({i \in DOMAIN sql : sql[i] = t})

\* C8: a negated node renders as "NOT " followed by the rendering of the
\* same node un-negated, which is one parenthesized group, with the same
\* params; there is one NOT per negated node, each directly before a group.
C8_Negation ==
    Rendered =>
        /\ \A b \in Nodes(heap, TemplateAddr) :
              heap[b].negated =>
                LET n == IF b = TemplateAddr THEN out
                         ELSE render_q(heap, b, out.qc)
                    u == render_q([heap EXCEPT ![b].negated = FALSE], b, out.qc)
                IN  /\ n.sql = <<"NOT ">> \o u.sql
                    /\ n.params = u.params
                    /\ u.sql[1] = "("
                    /\ u.sql[Len(u.sql)] = ")"
        /\ CountToken(out.sql, "NOT ")
             = Cardinality({b \in Nodes(heap, TemplateAddr) : heap[b].negated})
        /\ \A i \in DOMAIN out.sql :
              out.sql[i] = "NOT " => (i < Len(out.sql) /\ out.sql[i + 1] = "(")

\* NOT (A AND B): a negated root over two leaves.
C8_Witness ==
    /\ Rendered
    /\ heap[TemplateAddr].negated
    /\ heap[TemplateAddr].connector = "AND"
    /\ Len(heap[TemplateAddr].children) = 2
    /\ \A i \in 1..2 : IsLeaf(heap[TemplateAddr].children[i])
    /\ out.params = <<"a", "v", "b">>

RECURSIVE SepConcat(_, _)
\* The pieces in order with sep between each two neighbours.
SepConcat(pieces, sep) ==
    IF Len(pieces) = 1 THEN pieces[1]
    ELSE SepConcat(SubSeq(pieces, 1, Len(pieces) - 1), sep) \o sep \o pieces[Len(pieces)]

RECURSIVE TotalLen(_)
TotalLen(pieces) ==
    IF pieces = <<>> THEN 0 ELSE Len(Head(pieces)) + TotalLen(Tail(pieces))

\* The shape of the sql of the node b, which has k >= 1 children.
NodeShape(h, b, sql, qc) ==
    LET k == Len(h[b].children)
        body == IF h[b].negated THEN Tail(sql) ELSE sql
        sep == <<" ", h[b].connector, " ">>
        pieces == [i \in 1..k |->
                     LET child == h[b].children[i]
                     IN  IF child.type = "Q"
                         THEN <<"(">> \o render_q(h, child.ref, qc).sql \o <<")">>
                         ELSE WhereAsSql(child, qc).sql]
    IN  /\ body = <<"(">> \o SepConcat(pieces, sep) \o <<")">>
        /\ Len(body) = 2 + TotalLen(pieces) + 3 * (k - 1)

\* C9: the sql of a normalized node with k >= 1 children is, before any NOT
\* prefix, one parenthesis pair around the children's sql in child order,
\* separated by k-1 occurrences of " <connector> "; a sub-tree child is
\* wrapped in one more pair and a leaf's sql is inserted verbatim.
C9_JoinShape ==
    Rendered =>
        \A b \in Nodes(heap, TemplateAddr) :
            Len(heap[b].children) >= 1 =>
                NodeShape(heap, b,
                          IF b = TemplateAddr THEN out.sql
                          ELSE render_q(heap, b, out.qc).sql,
                          out.qc)

\* A root with a single-child sub-tree and a leaf.
C9_Witness ==
    /\ Rendered
    /\ Len(heap[TemplateAddr].children) = 2
    /\ heap[TemplateAddr].children[1].type = "Q"
    /\ Len(heap[heap[TemplateAddr].children[1].ref].children) = 1
    /\ IsLeaf(heap[heap[TemplateAddr].children[1].ref].children[1])
    /\ IsLeaf(heap[TemplateAddr].children[2])

\* C10: a render_q call leaves the tree as it was, and a second call with
\* the same quoting function returns the same (sql, params) as the first.
C10_Idempotent ==
    [][ (last' = "render_q" => heap' = heap)
        /\ ((last = "render_q" /\ last' = "render_q" /\ out'.qc = out.qc)
              => (out'.err = out.err /\ out'.sql = out.sql /\ out'.params = out.params))
      ]_vars

\* A normalized tree with a sub-tree has been rendered.
C10_Witness ==
    /\ Rendered
    /\ ~HasRaw(heap, TemplateAddr)
    /\ \E i \in DOMAIN heap[TemplateAddr].children :
          /\ heap[TemplateAddr].children[i].type = "Q"
          /\ heap[heap[TemplateAddr].children[i].ref].children # <<>>

\* C11: when a transform_q call returns normally, every Q object of the
\* tree is still there with its connector, negation flag and Q children,
\* every other child is the predicate build_filter makes of the raw leaf
\* that was in its place, and no raw leaf is left at any depth.
C11_AllLeavesReplaced ==
    [][ (last' = "transform_q" /\ out'.err = "") =>
          /\ DOMAIN heap' = DOMAIN heap
          /\ ~HasRaw(heap', TemplateAddr)
          /\ \A b \in DOMAIN heap :
                /\ heap'[b].connector = heap[b].connector
                /\ heap'[b].negated = heap[b].negated
                /\ DOMAIN heap'[b].children = DOMAIN heap[b].children
                /\ \A i \in DOMAIN heap[b].children :
                      LET child == heap[b].children[i]
                      IN  IF child.type = "Q"
                          THEN heap'[b].children[i] = child
                          ELSE /\ child.type = "raw"
                               /\ heap'[b].children[i] =
                                     build_filter(child, django_minor).node
                               /\ IsLeaf(heap'[b].children[i])
      ]_vars

\* transform_q has returned normally on a tree with a leaf at the root and
\* a leaf in a sub-tree, both now predicates.
C11_Witness ==
    /\ last = "transform_q"
    /\ out.err = ""
    /\ \E i \in DOMAIN heap[TemplateAddr].children :
          IsLeaf(heap[TemplateAddr].children[i])
    /\ \E b \in DOMAIN heap :
          /\ Len(b) > 1
          /\ \E i \in DOMAIN heap[b].children : IsLeaf(heap[b].children[i])

----------------------------------------------------------------------------
(* Properties of the aggregates, checked under SpecAgg *)

\* The caller's template: the Q objects under TemplateAddr.
TemplateTree(h) == [b \in {x \in DOMAIN h : x[1] = TemplateAddr[1]} |-> h[b]]

\* C2: an add_to_query call leaves the caller's template tree as it was:
\* the same connectors, negation flags and raw leaves at every depth.
C2_TemplateKept ==
    [][ last' = "add_to_query" =>
          /\ TemplateTree(heap') = TemplateTree(heap)
          /\ \A b \in DOMAIN TemplateTree(heap') :
                \A i \in DOMAIN heap'[b].children : ~IsLeaf(heap'[b].children[i])
      ]_vars

\* A call has succeeded on a template with a nested raw leaf.
C2_Witness ==
    /\ last = "add_to_query"
    /\ out.err = ""
    /\ "impressions" \in DOMAIN aggregates
    /\ ~HasRaw(heap, aggregates["impressions"].when)
    /\ <<0, 1>> \in DOMAIN heap
    /\ heap[<<0, 1>>].children # <<>>
    /\ heap[<<0, 1>>].children[1].type = "raw"

AsSqlDone == last = "as_sql" /\ out.err = ""

\* The aggregate the last as_sql call was made on.
Compiled == aggregates[out.alias]

\* C3: as_sql emits FUNCTION(CASE WHEN when_sql THEN value ELSE default END)
\* with when_sql the render_q output, and (SUM, target column, 0) for a
\* ConditionalSum, (COUNT, 1, NULL) for a ConditionalCount.
C3_ExactFragment ==
    AsSqlDone =>
        LET sum == Compiled.name = "ConditionalSum"
            fn == IF sum THEN <<"SUM">> ELSE <<"COUNT">>
            val == IF sum THEN col_as_sql(Compiled.col, out.qc).field_name ELSE <<"1">>
            def == IF sum THEN <<"0">> ELSE <<"NULL">>
        IN  out.sql = fn \o <<"(", "CASE WHEN ">>
                         \o render_q(heap, Compiled.when, out.qc).sql
                         \o <<" THEN ">> \o val \o <<" ELSE ">> \o def
                         \o <<" END", ")">>

ColParams(col) == IF col.form = "expr" THEN col.params ELSE <<>>

BindOrder(aggregate, h, qc) ==
    LET binds(key) ==
            IF key \in DOMAIN aggregate.extra THEN <<>>
            ELSE IF key = "when_clause" THEN LeafParams(h, aggregate.when, 1, qc)
            ELSE IF key = "value" /\ aggregate.name = "ConditionalSum"
                 THEN ColParams(aggregate.col)
            ELSE <<>>
    IN  binds("function") \o binds("when_clause") \o binds("value") \o binds("default")

\* C5: in the fragment as_sql returns, the i-th param is the bind value of
\* the i-th placeholder of the sql, read left to right (stated here for
\* a ConditionalSum built without extra options).
C5_ParamsMatchPlaceholders ==
    (AsSqlDone /\ Compiled.name = "ConditionalSum" /\ Compiled.extra = NoExtra) =>
        /\ CountToken(out.sql, "%s") = Len(out.params)
        /\ out.params = BindOrder(Compiled, heap, out.qc)


\* C12: when build_filter raises for a leaf during an add_to_query call,
\* the call ends with that error, query.aggregates is as it was before the
\* call (nothing is registered under the alias), no sql or params are
\* produced, and the caller's tree, as every other live tree, is as it was.
C12_FailureLeavesNoTrace ==
    [][ (last' = "add_to_query"
           /\ \E b \in Nodes(heap, TemplateAddr) : \E i \in DOMAIN heap[b].children :
                 /\ heap[b].children[i].type = "raw"
                 /\ build_filter(heap[b].children[i], django_minor).err # "") =>
          /\ out'.err = "FieldError"
          /\ aggregates' = aggregates
          /\ (out'.alias \notin DOMAIN aggregates => out'.alias \notin DOMAIN aggregates')
          /\ out'.sql = <<>>
          /\ out'.params = <<>>
          /\ TemplateTree(heap') = TemplateTree(heap)
          /\ heap' = heap
      ]_vars

\* A call has failed on a leaf that comes after a leaf that resolves.
C12_Witness ==
    /\ last = "add_to_query"
    /\ out.err = "FieldError"
    /\ out.alias \notin DOMAIN aggregates
    /\ \E b \in Nodes(heap, TemplateAddr) :
          /\ Len(heap[b].children) = 2
          /\ heap[b].children[1].type = "raw"
          /\ build_filter(heap[b].children[1], django_minor).err = ""
          /\ heap[b].children[2].type = "raw"
          /\ build_filter(heap[b].children[2], django_minor).err = "FieldError"


\* C14: the sql as_sql returns is the one it returns for the same aggregate
\* built without extra options: the function name, the WHEN text, the THEN
\* value and the ELSE default do not depend on self.extra.
C14_ExtraIgnored ==
    AsSqlDone =>
        out.sql = as_sql([Compiled EXCEPT !.extra = NoExtra], heap, out.qc).sql

----------------------------------------------------------------------------
(* Properties of concurrent compilation, checked under SpecConc *)

\* What add_to_query followed by as_sql returns for self when no other call
\* runs: the error of the one that raises, or the (sql, params) of as_sql.
Alone(h, self, qc, minor) ==
    LET r == add_to_query(TemplateTree(h), NoAggregates, self, "impressions",
                          self.col, minor)
    IN  IF r.err # ""
        THEN [err |-> r.err, sql |-> <<>>, params |-> <<>>]
        ELSE LET s == as_sql(r.aggregates["impressions"], r.heap, qc)
             IN  [err |-> s.err, sql |-> s.sql, params |-> s.params]

\* C13: in every interleaving of the steps of the two calls, no step writes
\* the shared template, the tree of a call is written by the steps of that
\* call only, and a call that is over has the error or the (sql, params)
\* that add_to_query followed by as_sql gives it when run alone.
C13_CallsIsolated ==
    [][ /\ TemplateTree(heap') = TemplateTree(heap)
        /\ \A c \in CallIds :
              /\ calls'[c] = calls[c] =>
                    \A b \in DOMAIN heap : b[1] = c => (b \in DOMAIN heap' /\ heap'[b] = heap[b])
              /\ calls'[c].pc \in {"done", "raised"} =>
                    LET a == Alone(heap', calls'[c].self, calls'[c].out.qc, django_minor)
                    IN  /\ calls'[c].out.err = a.err
                        /\ calls'[c].out.sql = a.sql
                        /\ calls'[c].out.params = a.params
      ]_vars

\* The first call has returned its sql while the clone of the second is
\* half normalized: one leaf is a predicate, the next is still raw.
C13_Witness ==
    /\ calls[1].pc = "done"
    /\ calls[1].out.err = ""
    /\ Len(calls[1].out.params) > 1
    /\ calls[2].pc = "transform_q"
    /\ calls[2].k = 1
    /\ LET v == Visits(heap, calls[2].when, 1)
       IN  /\ Len(v) = 2
           /\ IsLeaf(heap[v[1][1]].children[v[1][2]])
           /\ heap[v[2][1]].children[v[2][2]].type = "raw"

====
